---------------------------- MODULE Spec2Model ----------------------------
(***************************************************************************)
(* Model of src/openai/caption.py: the image encoder _file_to_data_url and *)
(* the asynchronous caption requester caption.                             *)
(*                                                                         *)
(* Representation.                                                         *)
(*   - an optional value (str | None) is a sequence of length <= 1:        *)
(*     <<>> is None, <<x>> is the value x;                                 *)
(*   - a file name is the sequence of its dot-separated segments           *)
(*     ("scan.png.gz" is <<"scan","png","gz">>, ".png" is <<"","png">>);   *)
(*   - a path is a sequence of components, each component a file name;     *)
(*     the root is the component <<"/">>, the home marker <<"~">>;         *)
(*   - file contents and base64 output are sequences of byte values;       *)
(*   - text is a sequence of one-character strings.                        *)
(***************************************************************************)
EXTENDS Integers, Sequences, FiniteSets, TLC

VARIABLES
    environ,    \* os.environ.get("OPENAI_API_KEY"), an optional string
    fs,         \* the file system: absolute path -> node
    remote,     \* the answers the remote endpoint may give to a request
    calls,      \* call id -> the frame of that invocation of caption
    enc         \* a direct invocation of _file_to_data_url

vars == <<environ, fs, remote, calls, enc>>

\* ------------------------------------------------------------------ bounds
MaxLen == 3        \* longest file content, in bytes
MaxText == 3       \* longest output_text of a remote answer, in characters
NCalls == 2        \* caption invocations in flight together

DefaultMaxOutputTokens == 80

\* ------------------------------------------------------------ small helpers
None == <<>>
Some(x) == <<x>>

Last(s) == s[Len(s)]
Front(s) == SubSeq(s, 1, Len(s) - 1)

RECURSIVE SeqsUpTo(_, _)
SeqsUpTo(S, n) ==
    IF n = 0 THEN {<<>>}
    ELSE LET shorter == SeqsUpTo(S, n - 1)
         IN  shorter \cup {Append(s, x) : s \in shorter, x \in S}

\* Fault variant of Truthy: only None is falsy.
TruthyNotNone(o) == o # None

\* Python truthiness of a str | None value: None and "" are falsy.
Truthy(o) == o # None /\ o[1] # ""

\* ------------------------------------------------------- base64.b64encode
\* The base64 alphabet as ASCII codes: A-Z, a-z, 0-9, '+', '/'.
B64Code(i) ==
    IF i < 26 THEN 65 + i
    ELSE IF i < 52 THEN 97 + (i - 26)
    ELSE IF i < 62 THEN 48 + (i - 52)
    ELSE IF i = 62 THEN 43
    ELSE 47

PadCode == 61      \* '='

\* Fault variant of B64Encode: the final group is left unpadded.
RECURSIVE B64EncodeDropPad(_)
B64EncodeDropPad(bytes) ==
    IF Len(bytes) = 0 THEN <<>>
    ELSE IF Len(bytes) = 1 THEN
        <<B64Code(bytes[1] \div 4), B64Code((bytes[1] % 4) * 16)>>
    ELSE IF Len(bytes) = 2 THEN
        <<B64Code(bytes[1] \div 4),
          B64Code((bytes[1] % 4) * 16 + bytes[2] \div 16),
          B64Code((bytes[2] % 16) * 4)>>
    ELSE
        <<B64Code(bytes[1] \div 4),
          B64Code((bytes[1] % 4) * 16 + bytes[2] \div 16),
          B64Code((bytes[2] % 16) * 4 + bytes[3] \div 64),
          B64Code(bytes[3] % 64)>>
        \o B64EncodeDropPad(SubSeq(bytes, 4, Len(bytes)))

\* base64.b64encode(data): three bytes become four sextets, a final group of
\* one or two bytes is padded with '='.
RECURSIVE B64Encode(_)
B64Encode(bytes) ==
    IF Len(bytes) = 0 THEN <<>>
    ELSE IF Len(bytes) = 1 THEN
        <<B64Code(bytes[1] \div 4), B64Code((bytes[1] % 4) * 16),
          PadCode, PadCode>>
    ELSE IF Len(bytes) = 2 THEN
        <<B64Code(bytes[1] \div 4),
          B64Code((bytes[1] % 4) * 16 + bytes[2] \div 16),
          B64Code((bytes[2] % 16) * 4),
          PadCode>>
    ELSE
        <<B64Code(bytes[1] \div 4),
          B64Code((bytes[1] % 4) * 16 + bytes[2] \div 16),
          B64Code((bytes[2] % 16) * 4 + bytes[3] \div 64),
          B64Code(bytes[3] % 64)>>
        \o B64Encode(SubSeq(bytes, 4, Len(bytes)))

\* bytes.decode("utf-8") on ASCII input: each byte below 128 is one character.
AsciiChars ==
    <<"A","B","C","D","E","F","G","H","I","J","K","L","M",
      "N","O","P","Q","R","S","T","U","V","W","X","Y","Z">>
AsciiLower ==
    <<"a","b","c","d","e","f","g","h","i","j","k","l","m",
      "n","o","p","q","r","s","t","u","v","w","x","y","z">>
AsciiDigits == <<"0","1","2","3","4","5","6","7","8","9">>

Chr(code) ==
    IF code >= 65 /\ code <= 90 THEN AsciiChars[code - 64]
    ELSE IF code >= 97 /\ code <= 122 THEN AsciiLower[code - 96]
    ELSE IF code >= 48 /\ code <= 57 THEN AsciiDigits[code - 47]
    ELSE IF code = 43 THEN "+"
    ELSE IF code = 47 THEN "/"
    ELSE IF code = 61 THEN "="
    ELSE "?"

Utf8Decode(bytes) == [i \in 1..Len(bytes) |-> Chr(bytes[i])]

\* ------------------------------------------------- mimetypes.guess_type
\* posixpath.splitext on the last component: the extension is the last
\* segment unless everything before it is empty (leading dots).
HasExt(name) == Len(name) >= 2 /\ \E i \in 1..(Len(name) - 1) : name[i] # ""
ExtOf(name) == IF HasExt(name) THEN Some(Last(name)) ELSE None
BaseOf(name) == IF HasExt(name) THEN Front(name) ELSE name

Lower(s) ==
    CASE s = "PNG" -> "png"
      [] s = "JPG" -> "jpg"
      [] s = "GZ"  -> "gz"
      [] OTHER     -> s

\* mimetypes.suffix_map: .tgz -> .tar.gz, .svgz -> .svg.gz
SuffixMap(ext) ==
    CASE ext = "tgz"  -> Some(<<"tar", "gz">>)
      [] ext = "svgz" -> Some(<<"svg", "gz">>)
      [] OTHER        -> None

\* mimetypes.encodings_map (matched case-sensitively)
IsEncoding(ext) == ext \in {"gz", "Z", "bz2", "xz", "br"}

\* mimetypes.types_map; a MIME type "t/s" is the pair <<t, s>>.
TypesMap(ext) ==
    CASE ext = "png"  -> Some(<<"image", "png">>)
      [] ext = "jpg"  -> Some(<<"image", "jpeg">>)
      [] ext = "jpeg" -> Some(<<"image", "jpeg">>)
      [] ext = "gif"  -> Some(<<"image", "gif">>)
      [] ext = "webp" -> Some(<<"image", "webp">>)
      [] ext = "svg"  -> Some(<<"image", "svg+xml">>)
      [] ext = "txt"  -> Some(<<"text", "plain">>)
      [] ext = "pdf"  -> Some(<<"application", "pdf">>)
      [] ext = "tar"  -> Some(<<"application", "x-tar">>)
      [] ext = "mp4"  -> Some(<<"video", "mp4">>)
      [] OTHER        -> None

\* The name after the suffix_map rewriting loop.
RECURSIVE ApplySuffixMap(_)
ApplySuffixMap(name) ==
    IF ExtOf(name) # None /\ SuffixMap(Lower(ExtOf(name)[1])) # None
    THEN ApplySuffixMap(BaseOf(name) \o SuffixMap(Lower(ExtOf(name)[1]))[1])
    ELSE name

\* The name after one encoding extension (.gz, ...) has been removed.
StripEncoding(name) ==
    IF ExtOf(name) # None /\ IsEncoding(ExtOf(name)[1]) THEN BaseOf(name)
    ELSE name

\* mimetypes.guess_type(str(path))[0]: an optional MIME type.
GuessType(path) ==
    LET name == StripEncoding(ApplySuffixMap(Last(path)))
    IN  IF ExtOf(name) = None THEN None
        ELSE TypesMap(Lower(ExtOf(name)[1]))

\* mime_type.startswith("image/")
IsImageType(mime) == mime[1] = "image"

FallbackMime == <<"image", "png">>

\* ------------------------------------------------------- the file system
Absent == [kind |-> "absent", bytes |-> <<>>]
Dir == [kind |-> "dir", bytes |-> <<>>]
File(bytes) == [kind |-> "file", bytes |-> bytes]

NodeAt(path) == IF path \in DOMAIN fs THEN fs[path] ELSE Absent

\* Path.exists() and Path.is_file()
Exists(path) == NodeAt(path).kind # "absent"
IsFile(path) == NodeAt(path).kind = "file"

\* --------------------------------------------------- _file_to_data_url
\* Fault variant of MimeFor: a non-image type is kept.
MimeAlwaysGuessed(path) ==
    IF GuessType(path) = None THEN FallbackMime ELSE GuessType(path)[1]

\* Lines 21-23: the inferred type, or image/png when there is none or it is
\* not an image type.

MimeFor(path) ==
    IF GuessType(path) = None \/ ~IsImageType(GuessType(path)[1])
    THEN FallbackMime
    ELSE GuessType(path)[1]

\* Line 26: f"data:{mime_type};base64,{b64}" as the sequence of its pieces,
\* the payload one character per element.
DataUrl(mime, b64) == <<"data:", mime[1], "/", mime[2], ";base64,">> \o b64

\* Fault variant of FileToDataUrl: is_file() is not checked.
FileToDataUrlExistsOnly(path) ==
    IF ~Exists(path)
    THEN [raised |-> TRUE, error |-> "FileNotFoundError", value |-> <<>>]
    ELSE [raised |-> FALSE,
          error  |-> "",
          value  |-> DataUrl(MimeFor(path),
                             Utf8Decode(B64Encode(NodeAt(path).bytes)))]

\* The outcome of _file_to_data_url(path): it raises FileNotFoundError or
\* returns the data URL.
FileToDataUrl(path) ==
    IF ~Exists(path) \/ ~IsFile(path)
    THEN [raised |-> TRUE, error |-> "FileNotFoundError", value |-> <<>>]
    ELSE [raised |-> FALSE,
          error  |-> "",
          value  |-> DataUrl(MimeFor(path),
                             Utf8Decode(B64Encode(NodeAt(path).bytes)))]

\* ----------------------------------------- Path.expanduser / Path.resolve
HomeDir == <<(<<"/">>), (<<"home">>), (<<"u">>)>>
Cwd == <<(<<"/">>), (<<"work">>)>>

Tilde == <<"~">>
Root == <<"/">>
DotName == <<"", "">>             \* "."
DotDotName == <<"", "", "">>      \* ".."

\* Path.expanduser(): a leading "~" becomes the home directory.
ExpandUser(p) == IF Len(p) > 0 /\ p[1] = Tilde THEN HomeDir \o Tail(p) ELSE p

\* Removal of "." and ".." components, left to right.
RECURSIVE Normalize(_, _)
Normalize(done, rest) ==
    IF rest = <<>> THEN done
    ELSE IF rest[1] = DotName THEN Normalize(done, Tail(rest))
    ELSE IF rest[1] = DotDotName THEN
        Normalize(IF Len(done) > 1 THEN Front(done) ELSE done, Tail(rest))
    ELSE Normalize(Append(done, rest[1]), Tail(rest))

\* Path.resolve(): a relative path is taken from the working directory.
Resolve(p) ==
    IF Len(p) > 0 /\ p[1] = Root THEN Normalize(<<Root>>, Tail(p))
    ELSE Normalize(Cwd, p)

\* ------------------------------------------------------------- str.strip
IsSpace(ch) == ch \in {" ", "\t", "\n", "\r"}

RECURSIVE LStrip(_)
LStrip(s) == IF s # <<>> /\ IsSpace(s[1]) THEN LStrip(Tail(s)) ELSE s

RECURSIVE RStrip(_)
RStrip(s) == IF s # <<>> /\ IsSpace(Last(s)) THEN RStrip(Front(s)) ELSE s

Strip(s) == RStrip(LStrip(s))

\* ------------------------------------------------------------- caption
Calls == 1..NCalls

DefaultPrompt == "Write a concise, vivid caption for this image (1 sentence)."
DefaultModel == "gpt-4.1-mini"

NoOutcome == [kind |-> "none", text |-> <<>>, error |-> ""]
Returned(text) == [kind |-> "return", text |-> text, error |-> ""]
Raised(error) == [kind |-> "raise", text |-> <<>>, error |-> error]

\* Fault variant of ResolveKey: the environment takes precedence.
ResolveKeyEnvFirst(api_key, env) == IF Truthy(env) THEN env ELSE api_key

\* Line 49: api_key or os.environ.get("OPENAI_API_KEY")

ResolveKey(api_key, env) == IF Truthy(api_key) THEN api_key ELSE env

\* Line 53: AsyncOpenAI(api_key=key)
NewClient(key) == [api_key |-> key]

\* Fault variant of BuildRequest: the image part comes first.
BuildRequestImageFirst(model, prompt, data_url, max_output_tokens) ==
    [model |-> model,
     input |-> << [role    |-> "user",
                   content |-> << [type |-> "input_image", image_url |-> data_url],
                                  [type |-> "input_text", text |-> prompt] >>] >>,
     max_output_tokens |-> max_output_tokens]

\* Lines 58-70: the arguments of client.responses.create.
BuildRequest(model, prompt, data_url, max_output_tokens) ==
    [model |-> model,
     input |-> << [role    |-> "user",
                   content |-> << [type |-> "input_text", text |-> prompt],
                                  [type |-> "input_image", image_url |-> data_url] >>] >>,
     max_output_tokens |-> max_output_tokens]

\* Fault variant of ExtractText: lstrip() in place of strip().
ExtractTextLeftOnly(output_text) ==
    IF output_text = None \/ output_text[1] = <<>> THEN <<>>
    ELSE LStrip(output_text[1])

\* Line 72: (resp.output_text or "").strip()
ExtractText(output_text) ==
    IF output_text = None \/ output_text[1] = <<>> THEN <<>>
    ELSE Strip(output_text[1])

\* Fault variant of ClientOf: one client, built by the first call, is shared.
ClientOfFirstBuilt(c) ==
    LET built == {d \in Calls : calls[d].client # None}
    IN  calls[CHOOSE d \in built : \A e \in built : d <= e].client[1]

\* Line 53: client is a local of invocation c.
ClientOf(c) == calls[c].client[1]

\* A frame before the coroutine has run.
NewFrame(args) ==
    [pc       |-> "pending",
     args     |-> args,
     client   |-> None,
     path     |-> <<>>,
     data_url |-> <<>>,
     sent     |-> <<>>,
     answer   |-> None,
     log      |-> <<>>,
     outcome  |-> NoOutcome]

Unused ==
    [NewFrame([image_path |-> <<>>, prompt |-> "", model |-> "",
               max_output_tokens |-> 0, api_key |-> None])
        EXCEPT !.pc = "unused"]

\* The file-system accesses of lines 55-56 and 18-25, in order.
FsAccesses(path) ==
    <<"resolve", "exists">>
    \o (IF Exists(path) THEN <<"is_file">> ELSE <<>>)
    \o (IF Exists(path) /\ IsFile(path) THEN <<"read_bytes">> ELSE <<>>)

\* Fault variant of AfterCredential: the image file is checked first.
AfterCredentialFileFirst(frame) ==
    LET key  == ResolveKey(frame.args.api_key, environ)
        path == Resolve(ExpandUser(frame.args.image_path))
    IN  IF FileToDataUrl(path).raised
        THEN [frame EXCEPT !.pc = "raised",
                           !.path = path,
                           !.log = @ \o FsAccesses(path),
                           !.outcome = Raised("FileNotFoundError")]
        ELSE IF ~Truthy(key)
        THEN [frame EXCEPT !.pc = "raised",
                           !.log = @ \o FsAccesses(path) \o <<"env">>,
                           !.outcome = Raised("RuntimeError")]
        ELSE [frame EXCEPT !.pc = "keyed",
                           !.log = @ \o FsAccesses(path) \o <<"env", "client">>,
                           !.client = Some(NewClient(key[1]))]

\* Lines 49-53: resolve the credential, raise RuntimeError when there is
\* none, otherwise build the client.
AfterCredential(frame) ==
    LET key == ResolveKey(frame.args.api_key, environ)
    IN  IF ~Truthy(key)
        THEN [frame EXCEPT !.pc = "raised",
                           !.log = Append(@, "env"),
                           !.outcome = Raised("RuntimeError")]
        ELSE [frame EXCEPT !.pc = "keyed",
                           !.log = @ \o <<"env", "client">>,
                           !.client = Some(NewClient(key[1]))]

ResolveCredential(c) ==
    /\ calls[c].pc = "pending"
    /\ calls' = [calls EXCEPT ![c] = AfterCredential(calls[c])]
    /\ UNCHANGED <<environ, fs, remote, enc>>

\* Lines 55-56: normalise the path and encode the image; FileNotFoundError
\* leaves the call.
AfterEncode(frame) ==
    LET path == Resolve(ExpandUser(frame.args.image_path))
        r    == FileToDataUrl(path)
    IN  IF r.raised
        THEN [frame EXCEPT !.pc = "raised",
                           !.path = path,
                           !.log = @ \o FsAccesses(path),
                           !.outcome = Raised(r.error)]
        ELSE [frame EXCEPT !.pc = "encoded",
                           !.path = path,
                           !.log = @ \o FsAccesses(path),
                           !.data_url = r.value]

EncodeImage(c) ==
    /\ calls[c].pc = "keyed"
    /\ calls' = [calls EXCEPT ![c] = AfterEncode(calls[c])]
    /\ UNCHANGED <<environ, fs, remote, enc>>

\* Line 58: client.responses.create(...) is called and the coroutine
\* suspends until the remote endpoint answers.
SendRequest(c) ==
    /\ calls[c].pc = "encoded"
    /\ calls' = [calls EXCEPT
          ![c].pc = "awaiting",
          ![c].log = Append(@, "send"),
          ![c].sent = Append(@,
              [client  |-> ClientOf(c),
               request |-> BuildRequest(calls[c].args.model,
                                        calls[c].args.prompt,
                                        calls[c].data_url,
                                        calls[c].args.max_output_tokens)])]
    /\ UNCHANGED <<environ, fs, remote, enc>>

\* Lines 58 and 72: the awaited call completes and the text is returned.
OnResponse(frame, ans) ==
    [frame EXCEPT !.pc = "returned",
                  !.answer = Some(ans),
                  !.log = Append(@, "response"),
                  !.outcome = Returned(ExtractText(ans.output_text))]

\* Fault variant of OnRemoteError: the request is sent once more.
OnRemoteErrorRetry(frame, ans) ==
    IF Len(frame.sent) < 2
    THEN [frame EXCEPT !.log = Append(@, "send"),
                       !.sent = Append(@, frame.sent[1])]
    ELSE [frame EXCEPT !.pc = "raised",
                       !.answer = Some(ans),
                       !.log = Append(@, "failure"),
                       !.outcome = Raised(ans.error)]

\* Line 58: the awaited call raises; nothing catches the exception.
OnRemoteError(frame, ans) ==
    [frame EXCEPT !.pc = "raised",
                  !.answer = Some(ans),
                  !.log = Append(@, "failure"),
                  !.outcome = Raised(ans.error)]

RemoteReply(c) ==
    /\ calls[c].pc = "awaiting"
    /\ \E ans \in remote :
          /\ ans.kind = "response"
          /\ calls' = [calls EXCEPT ![c] = OnResponse(calls[c], ans)]
    /\ UNCHANGED <<environ, fs, remote, enc>>

RemoteFailure(c) ==
    /\ calls[c].pc = "awaiting"
    /\ \E ans \in remote :
          /\ ans.kind = "failure"
          /\ calls' = [calls EXCEPT ![c] = OnRemoteError(calls[c], ans)]
    /\ UNCHANGED <<environ, fs, remote, enc>>

\* ------------------------------------------------------------- inputs
Bytes == {0, 77, 250, 255}
Contents == SeqsUpTo(Bytes, MaxLen)

TextChars == {" ", "\n", "a"}
Texts == SeqsUpTo(TextChars, MaxText)

Response(output_text) ==
    [kind |-> "response", output_text |-> output_text, error |-> ""]
Failure(error) ==
    [kind |-> "failure", output_text |-> None, error |-> error]

RemoteErrors ==
    {"APIConnectionError", "AuthenticationError", "RateLimitError",
     "InternalServerError"}

AllAnswers ==
    {Response(None)} \cup {Response(Some(t)) : t \in Texts}
    \cup {Failure(e) : e \in RemoteErrors}

FewAnswers ==
    {Response(Some(<<" ", "a", " ">>)), Failure("RateLimitError")}

Prompts == {DefaultPrompt, "Make it a funny caption."}
Models == {DefaultModel, "gpt-4o"}
TokenLimits == {DefaultMaxOutputTokens, 40}
ApiKeys == {None, Some(""), Some("sk-arg")}
EnvKeys == {None, Some(""), Some("sk-env")}

CatPng == <<(<<"/">>), (<<"work">>), (<<"cat", "png">>)>>
PhotoJpg == <<(<<"/">>), (<<"home">>), (<<"u">>), (<<"pics">>), (<<"photo", "jpg">>)>>
NotesTxt == <<(<<"/">>), (<<"work">>), (<<"notes", "txt">>)>>
AlbumPng == <<(<<"/">>), (<<"work">>), (<<"album", "png">>)>>

ImagePaths ==
    { <<(<<"cat", "png">>)>>,
      <<DotDotName, (<<"work">>), DotName, (<<"cat", "png">>)>>,
      <<Tilde, (<<"pics">>), (<<"photo", "jpg">>)>>,
      NotesTxt,
      <<(<<"album", "png">>)>>,
      <<(<<"missing", "png">>)>> }

FileSystems ==
    { (CatPng :> File(<<77, 250, 0>>)) @@ (PhotoJpg :> File(<<255, 0>>))
        @@ (NotesTxt :> File(<<77>>)) @@ (AlbumPng :> Dir),
      (CatPng :> File(<<>>)) @@ (PhotoJpg :> Dir),
      (NotesTxt :> File(<<250, 250, 250>>)) }

ArgSets ==
    [image_path : ImagePaths, prompt : Prompts, model : Models,
     max_output_tokens : TokenLimits, api_key : ApiKeys]

ConcArgSets ==
    [image_path : { <<(<<"cat", "png">>)>>, <<(<<"missing", "png">>)>> },
     prompt : Prompts, model : {DefaultModel},
     max_output_tokens : TokenLimits, api_key : {None, Some("sk-arg")}]

NoEnc == [pc |-> "unused", path |-> <<>>, outcome |-> NoOutcome]

\* One invocation of caption, with every combination of arguments,
\* environment, file system and remote answer.
Init ==
    /\ environ \in EnvKeys
    /\ fs \in FileSystems
    /\ remote = AllAnswers
    /\ \E a \in ArgSets :
          calls = [c \in Calls |-> IF c = 1 THEN NewFrame(a) ELSE Unused]
    /\ enc = NoEnc

Next ==
    \E c \in Calls :
       \/ ResolveCredential(c)
       \/ EncodeImage(c)
       \/ SendRequest(c)
       \/ RemoteReply(c)
       \/ RemoteFailure(c)

Spec == Init /\ [][Next]_vars

\* NCalls invocations of caption in flight together.
InitConc ==
    /\ environ \in {None, Some("sk-env")}
    /\ fs = (CatPng :> File(<<77, 250, 0>>))
    /\ remote = FewAnswers
    /\ calls \in [Calls -> {NewFrame(a) : a \in ConcArgSets}]
    /\ enc = NoEnc

SpecConc == InitConc /\ [][Next]_vars

\* A direct call of _file_to_data_url on one path of a one-entry file system.
EncNames ==
    { <<"cat", "png">>, <<"cat", "PNG">>, <<"photo", "jpg">>, <<"pic", "webp">>,
      <<"notes", "txt">>, <<"blob">>, <<"data", "xyz">>, <<"", "png">>,
      <<"scan", "png", "gz">>, <<"logo", "svgz">>, <<"src", "tgz">>,
      <<"dump", "gz">> }

InitEnc ==
    /\ environ = None
    /\ remote = {}
    /\ calls = [c \in Calls |-> Unused]
    /\ \E n \in EncNames, node \in {Absent, Dir} \cup {File(b) : b \in Contents} :
          /\ fs = (Append(Cwd, n) :> node)
          /\ enc = [pc |-> "ready", path |-> Append(Cwd, n), outcome |-> NoOutcome]

EncodeCall ==
    /\ enc.pc = "ready"
    /\ LET r == FileToDataUrl(enc.path)
       IN  enc' = IF r.raised
                  THEN [enc EXCEPT !.pc = "raised", !.outcome = Raised(r.error)]
                  ELSE [enc EXCEPT !.pc = "returned", !.outcome = Returned(r.value)]
    /\ UNCHANGED <<environ, fs, remote, calls>>

NextEnc == EncodeCall

SpecEnc == InitEnc /\ [][NextEnc]_vars

\* =================================================================== claims
FsOps == {"resolve", "exists", "is_file", "read_bytes"}

Active(c) == calls[c].pc # "unused"
Ended(c) == calls[c].pc \in {"returned", "raised"}

\* Neither the api_key argument nor OPENAI_API_KEY holds a non-empty string.
KeyMissing(c) ==
    /\ calls[c].args.api_key \in {None, Some("")}
    /\ environ \in {None, Some("")}

\* The absolute path that the image_path argument of call c names.
TargetOf(c) == Resolve(ExpandUser(calls[c].args.image_path))

RegularFile(path) == path \in DOMAIN fs /\ fs[path].kind = "file"

\* The standard base64 alphabet and a strict decoder.
B64Alphabet ==
    <<"A","B","C","D","E","F","G","H","I","J","K","L","M","N","O","P",
      "Q","R","S","T","U","V","W","X","Y","Z","a","b","c","d","e","f",
      "g","h","i","j","k","l","m","n","o","p","q","r","s","t","u","v",
      "w","x","y","z","0","1","2","3","4","5","6","7","8","9","+","/">>

IsB64Char(ch) == \E i \in 1..64 : B64Alphabet[i] = ch
B64Index(ch) == (CHOOSE i \in 1..64 : B64Alphabet[i] = ch) - 1

RECURSIVE B64Decode(_)
B64Decode(cs) ==
    IF cs = <<>> THEN Some(<<>>)
    ELSE IF Len(cs) < 4 \/ ~IsB64Char(cs[1]) \/ ~IsB64Char(cs[2]) THEN None
    ELSE LET n1 == B64Index(cs[1])
             n2 == B64Index(cs[2])
             b1 == n1 * 4 + n2 \div 16
         IN  IF cs[4] = "=" THEN
                 IF Len(cs) # 4 THEN None
                 ELSE IF cs[3] = "=" THEN
                     IF n2 % 16 = 0 THEN Some(<<b1>>) ELSE None
                 ELSE IF IsB64Char(cs[3]) /\ B64Index(cs[3]) % 4 = 0 THEN
                     Some(<<b1, (n2 % 16) * 16 + B64Index(cs[3]) \div 4>>)
                 ELSE None
             ELSE IF ~IsB64Char(cs[3]) \/ ~IsB64Char(cs[4]) THEN None
             ELSE LET n3 == B64Index(cs[3])
                      n4 == B64Index(cs[4])
                      rest == B64Decode(SubSeq(cs, 5, Len(cs)))
                  IN  IF rest = None THEN None
                      ELSE Some(<<b1, (n2 % 16) * 16 + n3 \div 4,
                                  (n3 % 4) * 64 + n4>> \o rest[1])

\* v has the form data:<type>/<subtype>;base64,<payload>
IsDataUrl(v) ==
    /\ Len(v) >= 5
    /\ v[1] = "data:" /\ v[3] = "/" /\ v[5] = ";base64,"
MimeOfUrl(v) == <<v[2], v[4]>>
PayloadOfUrl(v) == SubSeq(v, 6, Len(v))

\* C1: a call of caption with no non-empty api_key argument and no non-empty
\* OPENAI_API_KEY can end only in RuntimeError; it never touches the file
\* system and never sends a request.
C1_NoKeyNoIO ==
    \A c \in Calls :
        (Active(c) /\ KeyMissing(c)) =>
            /\ calls[c].pc \in {"pending", "raised"}
            /\ calls[c].pc = "raised" => calls[c].outcome = Raised("RuntimeError")
            /\ calls[c].sent = <<>>
            /\ \A i \in DOMAIN calls[c].log :
                  calls[c].log[i] \notin FsOps \cup {"send"}

C1_Witness ==
    \E c \in Calls :
        /\ KeyMissing(c)
        /\ RegularFile(TargetOf(c))
        /\ calls[c].outcome = Raised("RuntimeError")

\* C2: with a resolvable key, a path that does not exist or is not a regular
\* file makes _file_to_data_url raise FileNotFoundError without a value, and
\* the caption call ends in that error with no request sent.
C2_MissingFileRaises ==
    \A c \in Calls :
        (Active(c) /\ ~KeyMissing(c) /\ ~RegularFile(TargetOf(c))) =>
            /\ calls[c].pc \in {"pending", "keyed", "raised"}
            /\ calls[c].pc = "raised" =>
                  calls[c].outcome = Raised("FileNotFoundError")
            /\ calls[c].data_url = <<>>
            /\ calls[c].sent = <<>>

C2_Witness ==
    \E c \in Calls :
        /\ ~KeyMissing(c)
        /\ TargetOf(c) \in DOMAIN fs /\ fs[TargetOf(c)].kind = "dir"
        /\ calls[c].outcome = Raised("FileNotFoundError")

\* C5: for every existing regular file the encoder returns a value of the
\* form data:<mime>;base64,<payload> whose payload base64-decodes to exactly
\* the bytes of the file, the empty file included.
C5_RoundTrip ==
    (enc.pc # "ready" /\ RegularFile(enc.path)) =>
        /\ enc.pc = "returned"
        /\ IsDataUrl(enc.outcome.text)
        /\ B64Decode(PayloadOfUrl(enc.outcome.text)) = Some(fs[enc.path].bytes)

C5_Witness ==
    /\ enc.pc = "returned"
    /\ RegularFile(enc.path)
    /\ Len(fs[enc.path].bytes) = 2
    /\ Last(enc.outcome.text) = "="

\* C6: for an existing regular file whose name has no extension, or an
\* extension with no MIME type or a non-image MIME type, the encoder emits
\* image/png; an inferred image/* type is emitted unchanged; the payload
\* encodes the file's bytes either way.
C6_MimeFallback ==
    (enc.pc # "ready" /\ RegularFile(enc.path)) =>
        /\ enc.pc = "returned"
        /\ IsDataUrl(enc.outcome.text)
        /\ LET guess == GuessType(enc.path)
               mime  == MimeOfUrl(enc.outcome.text)
               name  == Last(enc.path)
           IN  /\ (guess = None \/ guess[1][1] # "image") => mime = <<"image", "png">>
               /\ (guess # None /\ guess[1][1] = "image") => mime = guess[1]
               /\ name = <<"blob">> => mime = <<"image", "png">>
               /\ name = <<"data", "xyz">> => mime = <<"image", "png">>
               /\ name = <<"notes", "txt">> => mime = <<"image", "png">>
               /\ name = <<"photo", "jpg">> => mime = <<"image", "jpeg">>
        /\ B64Decode(PayloadOfUrl(enc.outcome.text)) = Some(fs[enc.path].bytes)

C6_Witness ==
    /\ enc.pc = "returned"
    /\ Last(enc.path) = <<"notes", "txt">>
    /\ fs[enc.path].bytes = <<77, 250>>
    /\ MimeOfUrl(enc.outcome.text) = <<"image", "png">>

\* C3: every request sent holds exactly one message, of role "user", with
\* exactly two content parts, the prompt text and then the image data URL;
\* two calls that differ only in prompt (only in max_output_tokens) send
\* requests that differ only in the text part (only in max_output_tokens).
C3_RequestShape ==
    /\ \A c \in Calls : \A i \in DOMAIN calls[c].sent :
          LET r == calls[c].sent[i].request
          IN  /\ DOMAIN r = {"model", "input", "max_output_tokens"}
              /\ r.model = calls[c].args.model
              /\ r.max_output_tokens = calls[c].args.max_output_tokens
              /\ Len(r.input) = 1
              /\ DOMAIN r.input[1] = {"role", "content"}
              /\ r.input[1].role = "user"
              /\ Len(r.input[1].content) = 2
              /\ r.input[1].content[1] =
                    [type |-> "input_text", text |-> calls[c].args.prompt]
              /\ r.input[1].content[2].type = "input_image"
              /\ IsDataUrl(r.input[1].content[2].image_url)
              /\ B64Decode(PayloadOfUrl(r.input[1].content[2].image_url))
                    = Some(fs[TargetOf(c)].bytes)
    /\ \A c, d \in Calls :
          (calls[c].sent # <<>> /\ calls[d].sent # <<>>) =>
              LET rc == calls[c].sent[1].request
                  rd == calls[d].sent[1].request
              IN  /\ calls[c].args = [calls[d].args EXCEPT
                                         !.prompt = calls[c].args.prompt]
                     => rc = [rd EXCEPT !.input[1].content[1].text =
                                           calls[c].args.prompt]
                  /\ calls[c].args = [calls[d].args EXCEPT
                         !.max_output_tokens = calls[c].args.max_output_tokens]
                     => rc = [rd EXCEPT !.max_output_tokens =
                                           calls[c].args.max_output_tokens]

C3_Witness ==
    \E c, d \in Calls :
        /\ calls[c].sent # <<>> /\ calls[d].sent # <<>>
        /\ calls[c].args.prompt # calls[d].args.prompt
        /\ calls[c].args = [calls[d].args EXCEPT !.prompt = calls[c].args.prompt]
        /\ calls[c].sent[1].request # calls[d].sent[1].request

\* Python's whitespace characters among those a text may hold.
White(ch) == ch \in {" ", "\t", "\n", "\r"}

\* res is t without its leading and trailing whitespace.
IsTrimOf(res, t) ==
    \E i \in 1..(Len(t) + 1) : \E j \in (i - 1)..Len(t) :
        /\ res = SubSeq(t, i, j)
        /\ \A k \in 1..(i - 1) : White(t[k])
        /\ \A k \in (j + 1)..Len(t) : White(t[k])
        /\ res # <<>> => (~White(res[1]) /\ ~White(res[Len(res)]))

\* C4: after a successful answer caption returns the output text without its
\* leading and trailing whitespace, and the empty string when the answer has
\* no text (None or ""); a successful answer never ends in an error.
C4_TrimmedText ==
    \A c \in Calls :
        (calls[c].answer # None /\ calls[c].answer[1].kind = "response") =>
            LET ot == calls[c].answer[1].output_text
            IN  /\ calls[c].pc = "returned"
                /\ calls[c].outcome.kind = "return"
                /\ IF ot = None \/ ot[1] = <<>>
                   THEN calls[c].outcome.text = <<>>
                   ELSE IsTrimOf(calls[c].outcome.text, ot[1])

C4_Witness ==
    \E c \in Calls :
        /\ calls[c].pc = "returned"
        /\ calls[c].answer = Some(Response(Some(<<" ", "a", "\n">>)))
        /\ calls[c].outcome = Returned(<<"a">>)

\* The positions of event e in the log of call c.
Positions(c, e) == {i \in DOMAIN calls[c].log : calls[c].log[i] = e}

\* C7: a call that passes the credential and file checks sends exactly one
\* request, after the image has been read and encoded; a failure of that
\* request ends the call with the same failure, and no call ever sends a
\* second request.
C7_OneRequestNoRetry ==
    \A c \in Calls :
        /\ Len(calls[c].sent) <= 1
        /\ Cardinality(Positions(c, "send")) = Len(calls[c].sent)
        /\ \A i \in Positions(c, "send") :
              /\ \E j \in Positions(c, "read_bytes") : j < i
              /\ calls[c].data_url # <<>>
        /\ calls[c].pc = "awaiting" => Len(calls[c].sent) = 1
        /\ (Ended(c) /\ ~KeyMissing(c) /\ RegularFile(TargetOf(c))) =>
              /\ Len(calls[c].sent) = 1
              /\ calls[c].answer # None
              /\ calls[c].answer[1].kind = "failure" =>
                    calls[c].outcome = Raised(calls[c].answer[1].error)

C7_Witness ==
    \E c \in Calls :
        /\ calls[c].pc = "raised"
        /\ calls[c].answer = Some(Failure("RateLimitError"))
        /\ calls[c].outcome = Raised("RateLimitError")
        /\ Len(calls[c].sent) = 1

\* The outcome of one call of caption run on its own, given the answer of
\* the remote endpoint (None when no request is made).
RunAlone(args, ans) ==
    LET key == ResolveKey(args.api_key, environ)
        r   == FileToDataUrl(Resolve(ExpandUser(args.image_path)))
    IN  IF ~Truthy(key) THEN Raised("RuntimeError")
        ELSE IF r.raised THEN Raised(r.error)
        ELSE IF ans = None THEN NoOutcome
        ELSE IF ans[1].kind = "failure" THEN Raised(ans[1].error)
        ELSE Returned(ExtractText(ans[1].output_text))

\* Each call uses the client built from its own key and the request built
\* from its own arguments, and ends with the outcome it has when run alone.
OwnOutcome ==
    \A c \in Calls :
        /\ Ended(c) => calls[c].outcome = RunAlone(calls[c].args, calls[c].answer)
        /\ \A i \in DOMAIN calls[c].sent :
              /\ calls[c].sent[i].client =
                    NewClient(ResolveKey(calls[c].args.api_key, environ)[1])
              /\ calls[c].sent[i].request =
                    BuildRequest(calls[c].args.model, calls[c].args.prompt,
                                 FileToDataUrl(TargetOf(c)).value,
                                 calls[c].args.max_output_tokens)

\* A step belongs to one call: it changes that call's frame only and writes
\* neither the environment nor the file system.
OwnFrameOnly ==
    /\ environ' = environ
    /\ fs' = fs
    /\ \E c \in Calls : \A d \in Calls \ {c} : calls'[d] = calls[d]

\* C8: under every interleaving of the calls in flight, each call uses the
\* client built from its own key and the request built from its own
\* arguments, and ends with the outcome it has when run alone with the same
\* inputs, file contents and remote answer; no step of a call writes the
\* frame of another call or any shared state.
C8_Independent == []OwnOutcome /\ [][OwnFrameOnly]_vars

C8_Witness ==
    \E c, d \in Calls :
        /\ c # d
        /\ calls[c].pc = "returned" /\ calls[d].pc = "raised"
        /\ calls[c].sent # <<>> /\ calls[d].sent # <<>>
        /\ calls[c].sent[1].client # calls[d].sent[1].client

\* C9: the client gets the api_key argument whenever it is a non-empty
\* string, whatever the environment holds; OPENAI_API_KEY is used only when
\* api_key is None or ""; a call whose resolved key is empty or absent builds
\* no client and raises RuntimeError.
C9_KeyResolution ==
    \A c \in Calls :
        /\ calls[c].client # None =>
              /\ calls[c].client[1].api_key # ""
              /\ calls[c].args.api_key \notin {None, Some("")} =>
                    calls[c].client[1].api_key = calls[c].args.api_key[1]
              /\ calls[c].args.api_key \in {None, Some("")} =>
                    /\ environ # None
                    /\ calls[c].client[1].api_key = environ[1]
        /\ (Active(c) /\ calls[c].pc # "pending") =>
              IF KeyMissing(c)
              THEN calls[c].client = None
                   /\ calls[c].outcome = Raised("RuntimeError")
              ELSE calls[c].client # None

C9_Witness ==
    \E c \in Calls :
        /\ calls[c].args.api_key = Some("")
        /\ environ = Some("sk-env")
        /\ calls[c].client = Some(NewClient("sk-env"))

\* C10: the credential is checked before the image file: with no key and no
\* image file the call raises RuntimeError, not FileNotFoundError, and every
\* file-system access of a call comes after its client was built.
C10_CredentialFirst ==
    \A c \in Calls :
        /\ (KeyMissing(c) /\ ~RegularFile(TargetOf(c)) /\ calls[c].pc = "raised")
              => calls[c].outcome = Raised("RuntimeError")
        /\ \A i \in DOMAIN calls[c].log :
              calls[c].log[i] \in FsOps =>
                  /\ ~KeyMissing(c)
                  /\ \E j \in Positions(c, "client") : j < i

C10_Witness ==
    \E c \in Calls :
        /\ KeyMissing(c)
        /\ ~RegularFile(TargetOf(c))
        /\ calls[c].pc = "raised"
        /\ calls[c].log = <<"env">>

=============================================================================
